---- MODULE Spec2Model ----
(***************************************************************************)
(* A model of the Eltako device-discovery accumulator                      *)
(* (eltakodevice_discovery/ymalRepresentation.py, class HaConfig), of the  *)
(* gateway registry of the integration                                     *)
(* (custom_components/eltako/eltako_integration_init.py) and of the        *)
(* lights (eltako/light.py, classes EltakoDimmableLight and                *)
(* EltakoSwitchableLight, and the platform's setup_platform).              *)
(*                                                                         *)
(* Python values are modelled as follows.                                  *)
(*  - A dict is a sequence of [k, v] pairs in insertion order (Python     *)
(*    dicts keep insertion order, and the renderer walks them in it).      *)
(*  - A list is a sequence.                                                *)
(*  - A bytes value (a telegram address) is a sequence of octets; bytes    *)
(*    are compared lexicographically, as Python compares them.             *)
(*  - A Python int that may exceed 31 bits (a sender address and the sums  *)
(*    built from it) is a pair [hi, lo] of base-65536 limbs, value         *)
(*    hi * 65536 + lo, because TLC's integers are 32-bit.                  *)
(*  - A formatted string that is sliced is a sequence of one-character     *)
(*    strings until it is joined.                                          *)
(***************************************************************************)
EXTENDS Integers, Sequences, FiniteSets, TLC

VARIABLES
    eltako,          \* self.eltako: dict role -> list of records
    sener_id_list,   \* self.sener_id_list: list of telegram addresses
    sender_address,  \* self.sender_address: the default sender address
    call,            \* the last call: its inputs and its outcome
    seen,            \* history: addresses of the live sensor telegrams add_sensor was given
    ncalls,          \* number of add_device and add_sensor calls made so far (bounds the run)
    file,            \* the lines save_as_yaml_to_flie last wrote, <<>> before the first write
    data_eltako,     \* hass.data[DATA_ELTAKO]: dict key -> gateway
    registered,      \* history: the gateways given to set_gateway_to_hass, in order
    unloaded,        \* the ids of the gateways whose unload() has run
    hass_call,       \* the last call of the integration: its input and its outcome
    dimmable_light,  \* the EltakoDimmableLight: _dev_eep, _sender_id, _on_state, _brightness
    sent,            \* the command last given to send_command, <<>> before the first
    light_call,      \* the last call of the light: its input
    switchable_light, \* the EltakoSwitchableLight: its attributes, by name
    switchable_sent, \* the command it last gave to send_command, <<>> before the first
    switchable_call, \* the last call of the switchable light: its input and its outcome
    entities,        \* the entities setup_platform has given to add_entities, in order
    platform_call,   \* the last call of setup_platform: its config
    nsetups          \* number of setup_platform calls made so far (bounds the run)

discovery_vars == <<eltako, sener_id_list, sender_address, call, seen, ncalls, file>>

integration_vars == <<data_eltako, registered, unloaded, hass_call>>

switchable_vars == <<switchable_light, switchable_sent, switchable_call>>

platform_vars == <<switchable_vars, entities, platform_call, nsetups>>

light_vars == <<dimmable_light, sent, light_call, platform_vars>>

vars == <<discovery_vars, integration_vars, light_vars>>

(***************************************************************************)
(* Dicts as insertion-ordered sequences of pairs.                          *)
(***************************************************************************)
DictHas(d, key) == \E n \in 1..Len(d) : d[n].k = key

DictGet(d, key) == d[CHOOSE n \in 1..Len(d) : d[n].k = key].v

DictKeys(d) == [n \in 1..Len(d) |-> d[n].k]

\* d[key] = value: replaces in place when the key exists, appends otherwise.
DictSet(d, key, value) ==
    IF DictHas(d, key)
    THEN [n \in 1..Len(d) |-> IF d[n].k = key THEN [k |-> key, v |-> value] ELSE d[n]]
    ELSE Append(d, [k |-> key, v |-> value])

(***************************************************************************)
(* Unbounded Python ints as limb pairs.                                    *)
(***************************************************************************)
Limb == 256 * 256

ToWide(n) == [hi |-> n \div Limb, lo |-> n % Limb]

WideAdd(a, b) ==
    [hi |-> a.hi + b.hi + ((a.lo + b.lo) \div Limb), lo |-> (a.lo + b.lo) % Limb]

(***************************************************************************)
(* EEP_MAPPING, ORG_MAPPING, SENSOR_MESSAGE_TYPES.                         *)
(***************************************************************************)
EEP_MAPPING == <<
    [hw_type |-> "FTS14EM", eep |-> "F6-02-01", type |-> "binary_sensor", description |-> "Rocker switch", address_count |-> 1],
    [hw_type |-> "FTS14EM", eep |-> "F6-02-02", type |-> "binary_sensor", description |-> "Rocker switch", address_count |-> 1],
    [hw_type |-> "FTS14EM", eep |-> "F6-10-00", type |-> "binary_sensor", description |-> "Window handle", address_count |-> 1],
    [hw_type |-> "FTS14EM", eep |-> "D5-00-01", type |-> "binary_sensor", description |-> "Contact sensor", address_count |-> 1],
    [hw_type |-> "FTS14EM", eep |-> "A5-08-01", type |-> "binary_sensor", description |-> "Occupancy sensor", address_count |-> 1],
    [hw_type |-> "FWG14", eep |-> "A5-13-01", type |-> "sensor", description |-> "Weather station", address_count |-> 1],
    [hw_type |-> "FTS14EM", eep |-> "A5-12-01", type |-> "sensor", description |-> "Window handle", address_count |-> 1],
    [hw_type |-> "FSDG14", eep |-> "A5-12-02", type |-> "sensor", description |-> "Automated meter reading - electricity", address_count |-> 1],
    [hw_type |-> "F3Z14D", eep |-> "A5-13-01", type |-> "sensor", description |-> "Automated meter reading - gas", address_count |-> 1],
    [hw_type |-> "F3Z14D", eep |-> "A5-12-03", type |-> "sensor", description |-> "Automated meter reading - water", address_count |-> 1],
    [hw_type |-> "FUD14", eep |-> "A5-38-08", sender_eep |-> "A5-38-08", type |-> "light", description |-> "Central command - gateway", address_count |-> 1],
    [hw_type |-> "FSR14_1x", eep |-> "M5-38-08", sender_eep |-> "A5-38-08", type |-> "light", description |-> "Eltako relay", address_count |-> 1],
    [hw_type |-> "FSR14_x2", eep |-> "M5-38-08", sender_eep |-> "A5-38-08", type |-> "light", description |-> "Eltako relay", address_count |-> 2],
    [hw_type |-> "FSR14_4x", eep |-> "M5-38-08", sender_eep |-> "A5-38-08", type |-> "light", description |-> "Eltako relay", address_count |-> 4],
    [hw_type |-> "FSR14_1x", eep |-> "M5-38-08", sender_eep |-> "A5-38-08", type |-> "switch", description |-> "Eltako relay", address_count |-> 1],
    [hw_type |-> "FSR14_x2", eep |-> "M5-38-08", sender_eep |-> "A5-38-08", type |-> "switch", description |-> "Eltako relay", address_count |-> 2],
    [hw_type |-> "FSR14_4x", eep |-> "M5-38-08", sender_eep |-> "A5-38-08", type |-> "switch", description |-> "Eltako relay", address_count |-> 4],
    [hw_type |-> "FSB14", eep |-> "G5-3F-7F", sender_eep |-> "H5-3F-7F", type |-> "cover", description |-> "Eltako cover", address_count |-> 1]
>>

ORG_MAPPING == <<
    [k |-> 5, v |-> [Telegram |-> "RPS", RORG |-> "F6", name |-> "Switch", type |-> "binary_sensor", eep |-> "F6-02-01"]],
    [k |-> 6, v |-> [Telegram |-> "1BS", RORG |-> "D5", name |-> "1 Byte Communication", type |-> "sensor", eep |-> "D5-??-??"]],
    [k |-> 7, v |-> [Telegram |-> "4BS", RORG |-> "A5", name |-> "4 Byte Communication", type |-> "sensor", eep |-> "A5-??-??"]]
>>

SENSOR_MESSAGE_TYPES ==
    <<"EltakoWrappedRPS", "EltakoWrapped4BS", "RPSMessage", "Regular4BSMessage",
      "Regular1BSMessage", "EltakoMessage">>

\* The value a lookup that found nothing returns (Python's None).
None == [none |-> TRUE]

(***************************************************************************)
(* HaConfig.find_device_info: the first table entry with that hw-type.     *)
(***************************************************************************)
\* Mutant: the loop variable is returned when nothing matched (the last entry).
find_device_info_leak(name) ==
    IF \E n \in 1..Len(EEP_MAPPING) : EEP_MAPPING[n].hw_type = name
    THEN LET first == CHOOSE n \in 1..Len(EEP_MAPPING) :
                          /\ EEP_MAPPING[n].hw_type = name
                          /\ \A m \in 1..(n - 1) : EEP_MAPPING[m].hw_type # name
         IN  EEP_MAPPING[first]
    ELSE EEP_MAPPING[Len(EEP_MAPPING)]

\* Mutant: the last table entry with that hw-type wins.
find_device_info_last(name) ==
    IF \E n \in 1..Len(EEP_MAPPING) : EEP_MAPPING[n].hw_type = name
    THEN LET last == CHOOSE n \in 1..Len(EEP_MAPPING) :
                          /\ EEP_MAPPING[n].hw_type = name
                          /\ \A m \in (n + 1)..Len(EEP_MAPPING) : EEP_MAPPING[m].hw_type # name
         IN  EEP_MAPPING[last]
    ELSE None

find_device_info(name) ==
    IF \E n \in 1..Len(EEP_MAPPING) : EEP_MAPPING[n].hw_type = name
    THEN LET first == CHOOSE n \in 1..Len(EEP_MAPPING) :
                          /\ EEP_MAPPING[n].hw_type = name
                          /\ \A m \in 1..(n - 1) : EEP_MAPPING[m].hw_type # name
         IN  EEP_MAPPING[first]
    ELSE None

(***************************************************************************)
(* HaConfig.get_formatted_address.                                         *)
(***************************************************************************)
HexLower == <<"0", "1", "2", "3", "4", "5", "6", "7", "8", "9", "a", "b", "c", "d", "e", "f">>
HexUpper == <<"0", "1", "2", "3", "4", "5", "6", "7", "8", "9", "A", "B", "C", "D", "E", "F">>

\* str.upper() on one character of a hex string.
UpperChar(c) ==
    IF \E n \in 11..16 : HexLower[n] = c
    THEN HexUpper[CHOOSE n \in 11..16 : HexLower[n] = c]
    ELSE c

Upper(s) == [n \in 1..Len(s) |-> UpperChar(s[n])]

\* The hex digits of a natural number, most significant first, no padding.
RECURSIVE HexDigits(_)
HexDigits(n) ==
    IF n < 16 THEN <<HexLower[n + 1]>>
    ELSE Append(HexDigits(n \div 16), HexLower[(n % 16) + 1])

RECURSIVE ZeroPad(_, _)
ZeroPad(s, width) == IF Len(s) >= width THEN s ELSE ZeroPad(<<"0">> \o s, width)

\* f"{address:08x}": at least 8 hex digits, more when the value needs more.
Format08x(address) ==
    LET digits == IF address.hi = 0 THEN HexDigits(address.lo)
                  ELSE HexDigits(address.hi) \o ZeroPad(HexDigits(address.lo), 4)
    IN  ZeroPad(digits, 8)

\* Python's s[from:to] (0-based, end exclusive, clipped to the string).
Slice(s, from, to) ==
    SubSeq(s, from + 1, IF to > Len(s) THEN Len(s) ELSE to)

RECURSIVE Join(_)
Join(s) == IF s = <<>> THEN "" ELSE Head(s) \o Join(Tail(s))

\* The four slices a[0:2], a[2:4], a[4:6], a[6:8] of the upper-cased format.
FormattedOctets(address) ==
    LET a == Upper(Format08x(address))
    IN  <<Slice(a, 0, 2), Slice(a, 2, 4), Slice(a, 4, 6), Slice(a, 6, 8)>>

get_formatted_address(address) ==
    LET o == FormattedOctets(address)
    IN  Join(o[1]) \o "-" \o Join(o[2]) \o "-" \o Join(o[3]) \o "-" \o Join(o[4])

(***************************************************************************)
(* HaConfig.add_device.  A device is [name, address]: type(device).__name__*)
(* and device.address (a bus address, an int).                             *)
(***************************************************************************)
\* Mutant: the offset is not added to the device address.
dev_obj_no_offset(info, device, sender, i) ==
    LET base ==
            << [k |-> "id", v |-> get_formatted_address(ToWide(device.address))],
               [k |-> "eep", v |-> info.eep],
               [k |-> "name", v |-> device.name \o " - " \o ToString(device.address)] >>
        with_sender ==
            IF info.type \in {"light", "switch", "cover"}
            THEN DictSet(base, "sender",
                    << [k |-> "id", v |-> get_formatted_address(
                                            WideAdd(sender, ToWide(device.address)))],
                       [k |-> "eep", v |-> info.sender_eep] >>)
            ELSE base
    IN  IF info.type = "cover"
        THEN DictSet(DictSet(DictSet(with_sender, "device_class", "shutter"),
                             "time_closes", 24), "time_opens", 25)
        ELSE with_sender

\* Mutant: the two cover timings are swapped.
dev_obj_swapped_times(info, device, sender, i) ==
    LET base ==
            << [k |-> "id", v |-> get_formatted_address(ToWide(device.address + i))],
               [k |-> "eep", v |-> info.eep],
               [k |-> "name", v |-> device.name \o " - " \o ToString(device.address + i)] >>
        with_sender ==
            IF info.type \in {"light", "switch", "cover"}
            THEN DictSet(base, "sender",
                    << [k |-> "id", v |-> get_formatted_address(
                                            WideAdd(sender, ToWide(device.address + i)))],
                       [k |-> "eep", v |-> info.sender_eep] >>)
            ELSE base
    IN  IF info.type = "cover"
        THEN DictSet(DictSet(DictSet(with_sender, "device_class", "shutter"),
                             "time_closes", 25), "time_opens", 24)
        ELSE with_sender

\* The dev_obj built for offset i (lines 71-86).
dev_obj(info, device, sender, i) ==
    LET base ==
            << [k |-> "id", v |-> get_formatted_address(ToWide(device.address + i))],
               [k |-> "eep", v |-> info.eep],
               [k |-> "name", v |-> device.name \o " - " \o ToString(device.address + i)] >>
        with_sender ==
            IF info.type \in {"light", "switch", "cover"}
            THEN DictSet(base, "sender",
                    << [k |-> "id", v |-> get_formatted_address(
                                            WideAdd(sender, ToWide(device.address + i)))],
                       [k |-> "eep", v |-> info.sender_eep] >>)
            ELSE base
    IN  IF info.type = "cover"
        THEN DictSet(DictSet(DictSet(with_sender, "device_class", "shutter"),
                             "time_closes", 24), "time_opens", 25)
        ELSE with_sender

\* Lines 88-90 and 139-142: create the role's list on first use, then append.
EltakoAppend(e, role, obj) ==
    LET e1 == IF ~DictHas(e, role) THEN DictSet(e, role, <<>>) ELSE e
    IN  DictSet(e1, role, Append(DictGet(e1, role), obj))

\* Mutant: an offset whose id is already in the role map is skipped.
RECURSIVE AddDeviceFrom_dedup(_, _, _, _, _)
AddDeviceFrom_dedup(e, info, device, sender, i) ==
    IF i >= info.address_count THEN e
    ELSE LET obj == dev_obj(info, device, sender, i)
             known == \E r \in 1..Len(e) : \E n \in 1..Len(e[r].v) :
                          DictGet(e[r].v[n], "id") = DictGet(obj, "id")
         IN  AddDeviceFrom_dedup(IF known THEN e ELSE EltakoAppend(e, info.type, obj),
                                 info, device, sender, i + 1)

\* The loop of line 69, from offset i on.
RECURSIVE AddDeviceFrom(_, _, _, _, _)
AddDeviceFrom(e, info, device, sender, i) ==
    IF i >= info.address_count THEN e
    ELSE AddDeviceFrom(EltakoAppend(e, info.type, dev_obj(info, device, sender, i)),
                       info, device, sender, i + 1)

NoDevice == [name |-> "", address |-> 0]
NoMsg == [type |-> "", address |-> <<>>, org |-> 0, has_outgoing |-> FALSE,
          reparse |-> [ok |-> FALSE, address |-> <<>>]]

\* What the model records of a call: the operation, its argument, the exception
\* that left it (or ""), whether the operator notice of line 148 was logged, and
\* the value returned ("" when the operation returns nothing).
Call(op, device, msg, raised, notice, result) ==
    [op |-> op, device |-> device, msg |-> msg, raised |-> raised, notice |-> notice,
     result |-> result]

add_device(device) ==
    LET info == find_device_info(device.name)
    IN  /\ eltako' = IF info # None
                     THEN AddDeviceFrom(eltako, info, device, sender_address, 0)
                     ELSE eltako
        /\ call' = Call("add_device", device, NoMsg, "", FALSE, "")
        /\ ncalls' = ncalls + 1
        /\ UNCHANGED <<sener_id_list, sender_address, seen, file>>
        /\ UNCHANGED <<integration_vars, light_vars>>

(***************************************************************************)
(* Telegrams.  A telegram is [type, address, org, has_outgoing, reparse]:  *)
(* type(msg).__name__, msg.address (bytes), msg.org, whether the object    *)
(* has an attribute 'outgoing', and what the bus library's                 *)
(* Regular1BSMessage.parse returns for the frame line 98 rebuilds from the *)
(* telegram's body: a message with an address (ok) or an exception.        *)
(***************************************************************************)
\* Python's a < b and a <= b on bytes: lexicographic, a proper prefix is less.
RECURSIVE BytesLT(_, _)
BytesLT(a, b) ==
    IF b = <<>> THEN FALSE
    ELSE IF a = <<>> THEN TRUE
    ELSE IF Head(a) # Head(b) THEN Head(a) < Head(b)
    ELSE BytesLT(Tail(a), Tail(b))

\* Mutant: <= taken as <.
BytesLE_strict(a, b) == BytesLT(a, b)

BytesLE(a, b) == a = b \/ BytesLT(a, b)

min_address == <<0, 0, 16, 1>>       \* b'\x00\x00\x10\x01'
max_address == <<0, 0, 20, 137>>     \* b'\x00\x00\x14\x89'
rocker_threshold == <<254, 219, 0, 0>>   \* b'\xFE\xDB\x00\x00'

\* Lines 96-105: the label the 1BS rule returns, or None when it falls
\* through (not a 1BS telegram, address out of range, or an exception
\* swallowed by the bare except).
guess_1bs(msg) ==
    IF msg.type = "Regular1BSMessage"
    THEN IF msg.reparse.ok
         THEN IF BytesLE(min_address, msg.reparse.address)
                 /\ BytesLE(msg.reparse.address, max_address)
              THEN "FTS14EM switch"
              ELSE "pass"
         ELSE "pass"
    ELSE "pass"

guess_sensor_type_by_address(msg) ==
    IF guess_1bs(msg) # "pass" THEN guess_1bs(msg)
    ELSE IF msg.type = "RPSMessage" /\ BytesLT(rocker_threshold, msg.address)
    THEN "Wall Switch /Rocker Switch"
    ELSE IF msg.type = "Regular4BSMessage" THEN "Multi-Sensor ? "
    ELSE "???"

\* b2a(msg.address).replace(' ', '-').upper(): two hex digits per octet.
b2a(bytes) ==
    [n \in 1..(3 * Len(bytes) - 1) |->
        IF n % 3 = 0 THEN " "
        ELSE IF n % 3 = 1 THEN HexLower[(bytes[(n + 2) \div 3] \div 16) + 1]
        ELSE HexLower[(bytes[(n + 1) \div 3] % 16) + 1]]

Replace(s, old, new) == [n \in 1..Len(s) |-> IF s[n] = old THEN new ELSE s[n]]

sensor_address(msg) == Join(Upper(Replace(b2a(msg.address), " ", "-")))

InList(x, list) == \E n \in 1..Len(list) : list[n] = x

\* Mutant: the placeholder device class is attached whatever the role.
sensor_obj_class_always(info, msg) ==
    LET address == sensor_address(msg)
        sensor_type == guess_sensor_type_by_address(msg)
        comment == "Sensor Type: " \o sensor_type \o ", Derived from Msg Type: " \o msg.type
        sensor == << [k |-> "id", v |-> address],
                     [k |-> "eep", v |-> info.eep],
                     [k |-> "name", v |-> info.name \o " " \o address],
                     [k |-> "comment", v |-> comment] >>
    IN  DictSet(sensor, "device_class", "window / door / smoke / motion / ?")

\* The sensor dict of lines 129-137.
sensor_obj(info, msg) ==
    LET address == sensor_address(msg)
        sensor_type == guess_sensor_type_by_address(msg)
        comment == "Sensor Type: " \o sensor_type \o ", Derived from Msg Type: " \o msg.type
        sensor == << [k |-> "id", v |-> address],
                     [k |-> "eep", v |-> info.eep],
                     [k |-> "name", v |-> info.name \o " " \o address],
                     [k |-> "comment", v |-> comment] >>
    IN  IF info.type = "binary_sensor"
        THEN DictSet(sensor, "device_class", "window / door / smoke / motion / ?")
        ELSE sensor

\* Mutant: the class of the telegram is not asked for.
sensor_accepted_any_type(msg) ==
    /\ msg.has_outgoing
    /\ ~InList(msg.address, sener_id_list)

\* Mutant: the outgoing marker is not asked for.
sensor_accepted_no_marker(msg) ==
    /\ InList(msg.type, SENSOR_MESSAGE_TYPES)
    /\ ~InList(msg.address, sener_id_list)

\* Mutant: the dedup list is not consulted.
sensor_accepted_no_dedup(msg) ==
    /\ InList(msg.type, SENSOR_MESSAGE_TYPES)
    /\ msg.has_outgoing

\* Whether lines 118-121 let the telegram through to the record-building code.
sensor_accepted(msg) ==
    /\ InList(msg.type, SENSOR_MESSAGE_TYPES)
    /\ msg.has_outgoing
    /\ ~InList(msg.address, sener_id_list)

\* A live sensor emission: a recognized sensor type carrying the outgoing marker.
live_sensor(msg) == InList(msg.type, SENSOR_MESSAGE_TYPES) /\ msg.has_outgoing

add_sensor(msg) ==
    /\ IF sensor_accepted(msg)
       THEN IF DictHas(ORG_MAPPING, msg.org)
            THEN LET info == DictGet(ORG_MAPPING, msg.org)
                 IN  /\ eltako' = EltakoAppend(eltako, info.type, sensor_obj(info, msg))
                     /\ sener_id_list' = Append(sener_id_list, msg.address)
                     /\ call' = Call("add_sensor", NoDevice, msg, "", FALSE, "")
            ELSE \* ORG_MAPPING[msg.org] raises KeyError before anything is changed
                 /\ call' = Call("add_sensor", NoDevice, msg, "KeyError", FALSE, "")
                 /\ UNCHANGED <<eltako, sener_id_list>>
       ELSE /\ call' = Call("add_sensor", NoDevice, msg, "",
                            ~InList(msg.type, SENSOR_MESSAGE_TYPES)
                                /\ msg.type = "EltakoDiscoveryRequest"
                                /\ msg.address = 127,
                            "")
            /\ UNCHANGED <<eltako, sener_id_list>>
    /\ seen' = IF live_sensor(msg) THEN seen \cup {msg.address} ELSE seen
    /\ ncalls' = ncalls + 1
    /\ UNCHANGED <<sender_address, file>>
    /\ UNCHANGED <<integration_vars, light_vars>>

\* A call of the classifier on its own.
guess(msg) ==
    /\ call' = Call("guess_sensor_type_by_address", NoDevice, msg, "", FALSE,
                    guess_sensor_type_by_address(msg))
    /\ UNCHANGED <<eltako, sener_id_list, sender_address, seen, ncalls, file>>
    /\ UNCHANGED <<integration_vars, light_vars>>

(***************************************************************************)
(* HaConfig.save_as_yaml_to_flie.  The file is the sequence of the lines   *)
(* the print calls write, in order.                                        *)
(***************************************************************************)
\* Python's sub in s on strings.
In(sub, s) ==
    \E n \in 1..(Len(s) - Len(sub) + 1) : SubSeq(s, n, n + Len(sub) - 1) = sub

\* type(value).__name__ == 'str' for a value of a record: the values are
\* strings and small ints (the sender dict is never asked).
IntTexts == {ToString(n) : n \in 0..255}

is_str(value) == ToString(value) \notin IntTexts

\* The text an f-string puts for {value}.
Str(value) == IF is_str(value) THEN value ELSE ToString(value)

RECURSIVE Flatten(_)
Flatten(seqs) == IF seqs = <<>> THEN <<>> ELSE Head(seqs) \o Flatten(Tail(seqs))

\* Mutant: every string value is marked, wildcard or not.
annotated_every_string(value) ==
    IF is_str(value) THEN value \o " # <= NEED TO BE COMPLETED!!!" ELSE value

\* Lines 168-170: the value as printed, marked when it is a string with a '?'.
annotated(value) ==
    IF is_str(value) /\ In("?", value)
    THEN value \o " # <= NEED TO BE COMPLETED!!!"
    ELSE value

\* Lines 166-175: what one pass of the loop over item.keys() prints.
entry_lines(item, n) ==
    LET entry_key == item[n].k
        value == item[n].v
    IN  (IF entry_key \notin {"id", "sender", "comment"}
         THEN << "    " \o entry_key \o ": " \o Str(annotated(value)) >>
         ELSE <<>>)
        \o
        (IF entry_key = "sender"
         THEN << "    sender:",
                 "      id: " \o Str(DictGet(value, "id")),
                 "      eep: " \o Str(DictGet(value, "eep")) >>
         ELSE <<>>)

\* Lines 164-177: one record.
item_lines(item) ==
    << "  - id: " \o Str(DictGet(item, "id")) >>
    \o Flatten([n \in 1..Len(item) |-> entry_lines(item, n)])
    \o (IF DictHas(item, "comment")
        THEN << "    #" \o Str(DictGet(item, "comment")) >>
        ELSE <<>>)

\* Mutant: the roles are written last first.
type_lines_reversed(e, r) ==
    << "  " \o e[Len(e) + 1 - r].k \o ":" >>
    \o Flatten([n \in 1..Len(e[Len(e) + 1 - r].v) |-> item_lines(e[Len(e) + 1 - r].v[n])])

\* Lines 162-177: one pass of the loop over e.keys(), for the r-th key.
type_lines(e, r) ==
    << "  " \o e[r].k \o ":" >>
    \o Flatten([n \in 1..Len(e[r].v) |-> item_lines(e[r].v[n])])

\* Lines 180-183.
logger_lines == << "logger:", "  default: info", "  logs:", "    eltako: debug" >>

yaml_lines(e) ==
    << "eltako:" >> \o Flatten([r \in 1..Len(e) |-> type_lines(e, r)]) \o logger_lines

save_as_yaml_to_flie ==
    /\ file' = yaml_lines(eltako)
    /\ call' = Call("save_as_yaml_to_flie", NoDevice, NoMsg, "", FALSE, "")
    /\ UNCHANGED <<eltako, sener_id_list, sender_address, seen, ncalls>>
    /\ UNCHANGED <<integration_vars, light_vars>>

(***************************************************************************)
(* The gateway registry of the integration (eltako_integration_init.py).   *)
(* hass.data[DATA_ELTAKO] is a dict from a gateway description to the      *)
(* gateway object; a gateway is [id, dev_name], id standing for the        *)
(* object's identity.  The two default names come from .const; line 30     *)
(* says that the new one is the old one with 'ESP2' removed.  The entries  *)
(* async_setup_entry keeps in the same dict for the configuration and the  *)
(* entities are left out: they are not gateways.                           *)
(***************************************************************************)
GATEWAY_DEFAULT_NAME == "EnOcean Gateway"
OLD_GATEWAY_DEFAULT_NAME == "EnOcean ESP2 Gateway"

\* Python's s.replace(old, new) on strings: every occurrence, left to right.
RECURSIVE str_replace(_, _, _)
str_replace(s, old, new) ==
    IF Len(s) < Len(old) THEN s
    ELSE IF SubSeq(s, 1, Len(old)) = old
    THEN new \o str_replace(SubSeq(s, Len(old) + 1, Len(s)), old, new)
    ELSE SubSeq(s, 1, 1) \o str_replace(SubSeq(s, 2, Len(s)), old, new)

\* del d[key]
DictDel(d, key) == SelectSeq(d, LAMBDA entry : entry.k # key)

\* Lines 34-44: the loop over the keys, from the n-th on.
RECURSIVE migration_dict(_, _, _)
migration_dict(d, n, acc) ==
    IF n > Len(d) THEN acc
    ELSE LET key == d[n].k
             acc1 == IF In(GATEWAY_DEFAULT_NAME, key)
                     THEN DictSet(acc, str_replace(key, GATEWAY_DEFAULT_NAME,
                                                   OLD_GATEWAY_DEFAULT_NAME), d[n].v)
                     ELSE acc
             acc2 == IF In(OLD_GATEWAY_DEFAULT_NAME, key)
                     THEN DictSet(acc1, str_replace(key, OLD_GATEWAY_DEFAULT_NAME,
                                                    GATEWAY_DEFAULT_NAME), d[n].v)
                     ELSE acc1
         IN  migration_dict(d, n + 1, acc2)

\* Lines 46-47: every entry of the migration dict is written to the registry.
RECURSIVE DictUpdate(_, _)
DictUpdate(d, m) ==
    IF m = <<>> THEN d ELSE DictUpdate(DictSet(d, Head(m).k, Head(m).v), Tail(m))

migrate_old_gateway_descriptions(d) == DictUpdate(d, migration_dict(d, 1, <<>>))

\* What the model records of a call of the integration: the operation, the
\* description it was about, the id of the gateway it returned, registered or
\* unloaded (0 when none), and the exception that left it (or "").
HassCall(op, description, result, raised) ==
    [op |-> op, description |-> description, result |-> result, raised |-> raised]

set_gateway_to_hass(gateway_enity) ==
    /\ data_eltako' = DictSet(migrate_old_gateway_descriptions(data_eltako),
                              gateway_enity.dev_name, gateway_enity)
    /\ registered' = Append(registered, gateway_enity)
    /\ hass_call' = HassCall("set_gateway_to_hass", gateway_enity.dev_name,
                             gateway_enity.id, "")
    /\ UNCHANGED unloaded
    /\ UNCHANGED <<discovery_vars, light_vars>>

\* config_entry.data[CONF_GATEWAY_DESCRIPTION] is the description.
get_gateway_from_hass(description) ==
    LET d == migrate_old_gateway_descriptions(data_eltako)
    IN  /\ data_eltako' = d
        /\ hass_call' = IF DictHas(d, description)
                        THEN HassCall("get_gateway_from_hass", description,
                                      DictGet(d, description).id, "")
                        ELSE HassCall("get_gateway_from_hass", description, 0, "KeyError")
        /\ UNCHANGED <<registered, unloaded>>
        /\ UNCHANGED <<discovery_vars, light_vars>>

async_unload_entry(description) ==
    LET d == migrate_old_gateway_descriptions(data_eltako)
    IN  /\ IF ~DictHas(d, description)
           THEN \* get_gateway_from_hass raises KeyError after the migration
                /\ data_eltako' = d
                /\ hass_call' = HassCall("async_unload_entry", description, 0, "KeyError")
                /\ UNCHANGED unloaded
           ELSE LET gateway == DictGet(d, description)
                IN  /\ unloaded' = unloaded \cup {gateway.id}
                    /\ IF DictHas(d, gateway.dev_name)
                       THEN /\ data_eltako' = DictDel(d, gateway.dev_name)
                            /\ hass_call' = HassCall("async_unload_entry", description,
                                                     gateway.id, "")
                       ELSE \* del raises KeyError after gateway.unload()
                            /\ data_eltako' = d
                            /\ hass_call' = HassCall("async_unload_entry", description,
                                                     gateway.id, "KeyError")
        /\ UNCHANGED registered
        /\ UNCHANGED <<discovery_vars, light_vars>>

InitIntegration ==
    /\ data_eltako = <<>>
    /\ registered = <<>>
    /\ unloaded = {}
    /\ hass_call = HassCall("", "", 0, "")

(***************************************************************************)
(* EltakoDimmableLight (eltako/light.py).  A status telegram is            *)
(* [org, data]: msg.org and the four octets msg.data[0..3] (data[k] of the *)
(* source is data[k + 1] here).  kwargs is a dict, empty or holding        *)
(* ATTR_BRIGHTNESS.  send_command belongs to the entity base class; the    *)
(* model keeps the command it was last given.                              *)
(***************************************************************************)
ATTR_BRIGHTNESS == "brightness"

\* What the model records of a call of the light.
LightCall(op, kwargs, msg) == [op |-> op, kwargs |-> kwargs, msg |-> msg]

NoStatus == [org |-> 0, data |-> <<>>]

\* Line 111: math.floor(self._brightness / 256.0 * 100.0), exact for the ints
\* in question (x / 256.0 is exact, and so is the product).
bval_of(brightness) == (brightness * 100) \div 256

\* Lines 106-118.
turn_on(kwargs) ==
    LET brightness == IF DictHas(kwargs, ATTR_BRIGHTNESS)
                      THEN DictGet(kwargs, ATTR_BRIGHTNESS)
                      ELSE dimmable_light.brightness
        bval == IF bval_of(brightness) = 0 THEN 1 ELSE bval_of(brightness)
    IN  /\ dimmable_light' = [dimmable_light EXCEPT !.brightness = brightness,
                                                    !.on_state = TRUE]
        /\ sent' = <<165, 2, bval, 1, 9>> \o dimmable_light.sender_id \o <<0>>
        /\ light_call' = LightCall("turn_on", kwargs, NoStatus)
        /\ UNCHANGED <<discovery_vars, integration_vars, platform_vars>>

\* Lines 120-126.
turn_off(kwargs) ==
    /\ dimmable_light' = [dimmable_light EXCEPT !.on_state = FALSE]
    /\ sent' = <<165, 2, 0, 1, 9>> \o dimmable_light.sender_id \o <<0>>
    /\ light_call' = LightCall("turn_off", kwargs, NoStatus)
    /\ UNCHANGED <<discovery_vars, integration_vars, platform_vars>>

\* Line 144: math.floor(val / 100.0 * 256.0).  The exact quotient val * 256 / 100
\* is an integer only for val a multiple of 25, where the float product is exact
\* too; elsewhere it is at least 1/25 away from an integer, far more than the
\* rounding error.
brightness_of(val) == (val * 256) \div 100

\* Lines 134-141: whether value_changed gets to its assignments.
status_accepted(dev_eep, msg) ==
    /\ dev_eep \in {"A5-38-08"}
    /\ ~(msg.org # 7 \/ msg.data[1] # 2)
    /\ ~(msg.data[4] # (IF msg.data[2] # 0 THEN 9 ELSE 8))

\* Lines 128-146.
value_changed(msg) ==
    /\ dimmable_light' =
           IF status_accepted(dimmable_light.dev_eep, msg)
           THEN [dimmable_light EXCEPT !.brightness = brightness_of(msg.data[2]),
                                       !.on_state = (msg.data[2] # 0)]
           ELSE dimmable_light
    /\ light_call' = LightCall("value_changed", <<>>, msg)
    /\ UNCHANGED sent
    /\ UNCHANGED <<discovery_vars, integration_vars, platform_vars>>

\* Lines 65-73, for the entity setup_platform creates (lines 54-55).
InitLight ==
    /\ dimmable_light = [dev_eep |-> "A5-38-08", sender_id |-> <<255, 128, 0, 1>>,
                         on_state |-> FALSE, brightness |-> 50]
    /\ sent = <<>>
    /\ light_call = LightCall("__init__", <<>>, NoStatus)

(***************************************************************************)
(* EltakoSwitchableLight (eltako/light.py).  The object is a record of the *)
(* attributes it has: an attribute the code has not assigned yet is not in *)
(* the record's domain, and reading it raises AttributeError.  A status    *)
(* telegram is [org, data] as above.                                       *)
(***************************************************************************)

\* What the model records of a call of the switchable light; raised is the
\* exception the call ended with, "" when it returned.
SwitchableCall(op, kwargs, msg, raised) ==
    [op |-> op, kwargs |-> kwargs, msg |-> msg, raised |-> raised]

\* self.<name> = value
SetAttr(obj, name, value) ==
    [f \in DOMAIN obj \cup {name} |-> IF f = name THEN value ELSE obj[f]]

HasAttr(obj, name) == name \in DOMAIN obj

\* Lines 154-161: the attributes __init__ assigns (no brightness among them).
EltakoSwitchableLight(dev_eep, sender_id) ==
    [dev_eep |-> dev_eep, on_state |-> FALSE, sender_id |-> sender_id]

\* Lines 185-197.  Line 188 assigns _brightness when the call brings one;
\* line 190 reads it, and raises when no call has brought one so far: the
\* call then ends before send_command (line 196) and line 197.
switchable_turn_on(kwargs) ==
    LET self == IF DictHas(kwargs, ATTR_BRIGHTNESS)
                THEN SetAttr(switchable_light, "brightness", DictGet(kwargs, ATTR_BRIGHTNESS))
                ELSE switchable_light
    IN  IF ~HasAttr(self, "brightness")
        THEN /\ switchable_light' = self
             /\ switchable_call' = SwitchableCall("turn_on", kwargs, NoStatus, "AttributeError")
             /\ UNCHANGED switchable_sent
             /\ UNCHANGED <<discovery_vars, integration_vars, dimmable_light, sent, light_call,
                     entities, platform_call, nsetups>>
        ELSE LET bval == IF bval_of(self.brightness) = 0 THEN 1 ELSE bval_of(self.brightness)
             IN  /\ switchable_light' = [self EXCEPT !.on_state = TRUE]
                 /\ switchable_sent' = <<165, 2, bval, 1, 9>> \o self.sender_id \o <<0>>
                 /\ switchable_call' = SwitchableCall("turn_on", kwargs, NoStatus, "")
                 /\ UNCHANGED <<discovery_vars, integration_vars, dimmable_light, sent, light_call,
                     entities, platform_call, nsetups>>

\* Lines 199-205.
switchable_turn_off(kwargs) ==
    /\ switchable_light' = [switchable_light EXCEPT !.on_state = FALSE]
    /\ switchable_sent' = <<165, 2, 0, 1, 9>> \o switchable_light.sender_id \o <<0>>
    /\ switchable_call' = SwitchableCall("turn_off", kwargs, NoStatus, "")
    /\ UNCHANGED <<discovery_vars, integration_vars, dimmable_light, sent, light_call,
                     entities, platform_call, nsetups>>

\* Lines 207-217.
switchable_value_changed(msg) ==
    /\ switchable_light' =
           IF switchable_light.dev_eep \in {"M5-38-08"} /\ ~(msg.org # 5)
           THEN IF msg.data[1] = 112
                THEN [switchable_light EXCEPT !.on_state = TRUE]
                ELSE IF msg.data[1] = 80
                     THEN [switchable_light EXCEPT !.on_state = FALSE]
                     ELSE switchable_light
           ELSE switchable_light
    /\ switchable_call' = SwitchableCall("value_changed", <<>>, msg, "")
    /\ UNCHANGED switchable_sent
    /\ UNCHANGED <<discovery_vars, integration_vars, dimmable_light, sent, light_call,
                     entities, platform_call, nsetups>>

\* Lines 154-161 again: another EltakoSwitchableLight takes the place of the
\* one at hand.
switchable_new(dev_eep) ==
    /\ switchable_light' = EltakoSwitchableLight(dev_eep, <<255, 128, 0, 2>>)
    /\ switchable_sent' = <<>>
    /\ switchable_call' = SwitchableCall("__init__", <<>>, NoStatus, "")
    /\ UNCHANGED <<discovery_vars, integration_vars, dimmable_light, sent, light_call,
                     entities, platform_call, nsetups>>

InitSwitchable ==
    /\ switchable_light = EltakoSwitchableLight("M5-38-08", <<255, 128, 0, 2>>)
    /\ switchable_sent = <<>>
    /\ switchable_call = SwitchableCall("__init__", <<>>, NoStatus, "")

(***************************************************************************)
(* The light platform (eltako/light.py, lines 27-57).  A config is the     *)
(* record of its four entries: id, eep, sender_id and name.  An entity     *)
(* given to add_entities is the record of its class and of the arguments   *)
(* of its constructor.                                                     *)
(***************************************************************************)
CONF_EEP_SUPPORTED == <<"A5-38-08", "M5-38-08">>

\* Lines 32-39, the entry of line 35: the EEP is one of CONF_EEP_SUPPORTED.
\* (The other entries constrain strings the model takes from a fixed set.)
PLATFORM_SCHEMA(config) == InList(config.eep, CONF_EEP_SUPPORTED)

\* Line 52: AddressExpression.parse on the id strings the runs use, the
\* octets of the dash-separated hex text.
ParsedAddresses ==
    <<[k |-> "FF-AA-80-01", v |-> <<255, 170, 128, 1>>],
      [k |-> "FF-AA-80-02", v |-> <<255, 170, 128, 2>>]>>

parse(id) == DictGet(ParsedAddresses, id)

Entity(class, dev_id, dev_name, dev_eep, sender_id) ==
    [class |-> class, dev_id |-> dev_id, dev_name |-> dev_name,
     dev_eep |-> dev_eep, sender_id |-> sender_id]

\* Lines 49-57: the list add_entities is given, <<>> when it is not called.
added_entities(config) ==
    LET sender_id == config.sender_id
        dev_name == config.name
        dev_eep == config.eep
        dev_id == parse(config.id)
    IN  IF InList(dev_eep, <<"A5-38-08">>)
        THEN <<Entity("EltakoDimmableLight", dev_id, dev_name, dev_eep, sender_id)>>
        ELSE IF InList(dev_eep, <<"AM-38-08">>)
             THEN <<Entity("EltakoSwitchableLight", dev_id, dev_name, dev_eep, sender_id)>>
             ELSE <<>>

\* Lines 42-57.
setup_platform(config) ==
    /\ entities' = entities \o added_entities(config)
    /\ platform_call' = [op |-> "setup_platform", config |-> config]
    /\ nsetups' = nsetups + 1
    /\ UNCHANGED <<discovery_vars, integration_vars, dimmable_light, sent, light_call,
                   switchable_vars>>

NoConfig == [id |-> "", eep |-> "", sender_id |-> "", name |-> ""]

\* Before the platform is set up.
InitPlatform ==
    /\ entities = <<>>
    /\ platform_call = [op |-> "", config |-> NoConfig]
    /\ nsetups = 0

(***************************************************************************)
(* The runs.  __init__ leaves an empty role map and an empty dedup list;   *)
(* the bus-reader loop then feeds one device or one telegram at a time.    *)
(*                                                                         *)
(* Spec explores sequences of calls over a few inputs; SpecWide explores   *)
(* short runs over every profile of EEP_MAPPING, every sensor type and     *)
(* organization codes inside and outside ORG_MAPPING; SpecGuess applies    *)
(* the classifier to telegrams around its address thresholds; SpecRender  *)
(* lets the file be written at any point of a run.                         *)
(***************************************************************************)
MaxCalls == 3
MaxCallsWide == 2

Addr1 == <<0, 0, 1, 0>>          \* the bytes of 0x00000100
Addr2 == <<254, 219, 0, 1>>      \* the bytes of 0xFEDB0001
Addr3 == <<0, 0, 16, 1>>         \* the bytes of 0x00001001

Telegram(type, address, org, has_outgoing, reparse) ==
    [type |-> type, address |-> address, org |-> org, has_outgoing |-> has_outgoing,
     reparse |-> reparse]

\* What the bus library's parse of the rebuilt frame gives: a message carrying an
\* address (in a run of the accumulator, the telegram's own), or an exception.
Parsed(address) == [ok |-> TRUE, address |-> address]
ParseError == [ok |-> FALSE, address |-> <<>>]

Init ==
    /\ eltako = <<>>
    /\ sener_id_list = <<>>
    /\ sender_address = ToWide(512)
    /\ call = Call("__init__", NoDevice, NoMsg, "", FALSE, "")
    /\ seen = {}
    /\ ncalls = 0
    /\ file = <<>>
    /\ InitIntegration
    /\ InitLight
    /\ InitSwitchable
    /\ InitPlatform

Devices ==
    {[name |-> n, address |-> 256] : n \in {"FSR14_x2", "FSB14", "FTS14EM", "FWG14", "FAM14"}}

SensorTelegrams ==
    {Telegram(t[1], a, t[2], o, Parsed(a)) :
        t \in {<<"RPSMessage", 5>>, <<"Regular1BSMessage", 6>>, <<"EltakoMessage", 8>>},
        a \in {Addr1, Addr2}, o \in BOOLEAN}

BusTelegrams ==
    {Telegram("EltakoDiscoveryRequest", a, 240, FALSE, ParseError) : a \in {127, 1}}

AddDevice == ncalls < MaxCalls /\ \E device \in Devices : add_device(device)

AddSensor == ncalls < MaxCalls /\ \E msg \in SensorTelegrams : add_sensor(msg)

AddBusTelegram == ncalls < MaxCalls /\ \E msg \in BusTelegrams : add_sensor(msg)

Next == AddDevice \/ AddSensor \/ AddBusTelegram

Spec == Init /\ [][Next]_vars

InitWide ==
    /\ eltako = <<>>
    /\ sener_id_list = <<>>
    /\ sender_address \in {ToWide(512), [hi |-> 65535, lo |-> 65408]}
    /\ call = Call("__init__", NoDevice, NoMsg, "", FALSE, "")
    /\ seen = {}
    /\ ncalls = 0
    /\ file = <<>>
    /\ InitIntegration
    /\ InitLight
    /\ InitSwitchable
    /\ InitPlatform

DevicesWide ==
    {[name |-> n, address |-> a] :
        n \in {EEP_MAPPING[i].hw_type : i \in 1..Len(EEP_MAPPING)} \cup {"FAM14"},
        a \in {256, 255}}

SensorTelegramsWide ==
    {Telegram(t, a, org, o, Parsed(a)) :
        t \in {SENSOR_MESSAGE_TYPES[i] : i \in 1..Len(SENSOR_MESSAGE_TYPES)}
              \cup {"EltakoDiscoveryReply"},
        a \in {Addr1}, org \in {5, 6, 7, 8}, o \in BOOLEAN}

AddDeviceWide == ncalls < MaxCallsWide /\ \E device \in DevicesWide : add_device(device)

AddSensorWide == ncalls < MaxCallsWide /\ \E msg \in SensorTelegramsWide : add_sensor(msg)

AddBusTelegramWide == ncalls < MaxCallsWide /\ \E msg \in BusTelegrams : add_sensor(msg)

NextWide == AddDeviceWide \/ AddSensorWide \/ AddBusTelegramWide

SpecWide == InitWide /\ [][NextWide]_vars

\* Addresses around the classifier's thresholds, and some far from them.
GuessAddresses ==
    {<<a, b, c, d>> : a \in {0, 1, 255}, b \in {0, 1}, c \in {15, 16, 17, 20, 21},
                      d \in {0, 1, 2, 136, 137, 138, 255}}

GuessTelegrams ==
    {Telegram(t[1], Addr1, t[2], TRUE, r) :
        t \in {<<"Regular1BSMessage", 6>>, <<"EltakoMessage", 6>>},
        r \in {Parsed(a) : a \in GuessAddresses} \cup {ParseError}}

Guess == \E msg \in GuessTelegrams : guess(msg)

\* Telegram addresses at, next to and far from the rocker threshold 0xFEDB0000.
FamilyAddresses ==
    {<<254, 219, 0, 0>>, <<254, 219, 0, 1>>, <<254, 218, 255, 255>>, <<254, 220, 0, 0>>,
     <<255, 0, 0, 0>>, <<254, 0, 255, 255>>, <<0, 0, 1, 0>>, <<0, 255, 255, 255>>}

\* Telegrams of the RPS and 4BS classes, plain and Eltako-wrapped, and of a
\* class of neither family.
GuessFamilyTelegrams ==
    {Telegram(t[1], a, t[2], TRUE, ParseError) :
        t \in {<<"RPSMessage", 5>>, <<"EltakoWrappedRPS", 5>>, <<"Regular4BSMessage", 7>>,
               <<"EltakoWrapped4BS", 7>>, <<"EltakoMessage", 5>>},
        a \in FamilyAddresses}

GuessFamily == \E msg \in GuessFamilyTelegrams : guess(msg)

NextGuess == Guess \/ GuessFamily

SpecGuess == Init /\ [][NextGuess]_vars

MaxCallsRender == 3

DevicesRender ==
    {[name |-> n, address |-> 256] : n \in {"FSR14_x2", "FSB14", "FTS14EM"}}

SensorTelegramsRender ==
    {Telegram("RPSMessage", Addr1, 5, TRUE, Parsed(Addr1)),
     Telegram("RPSMessage", Addr2, 5, TRUE, Parsed(Addr2)),
     Telegram("Regular4BSMessage", Addr3, 7, TRUE, Parsed(Addr3))}

AddDeviceRender == ncalls < MaxCallsRender /\ \E device \in DevicesRender : add_device(device)

AddSensorRender == ncalls < MaxCallsRender /\ \E msg \in SensorTelegramsRender : add_sensor(msg)

SaveAsYaml == save_as_yaml_to_flie

NextRender == AddDeviceRender \/ AddSensorRender \/ SaveAsYaml

SpecRender == Init /\ [][NextRender]_vars

MaxGateways == 3

\* The dev_name of a gateway the current code creates carries the new default
\* name; a config entry made by an older version still carries the old one.
DevNames == {GATEWAY_DEFAULT_NAME \o " (Id: 1)", GATEWAY_DEFAULT_NAME \o " (Id: 2)"}

Descriptions == DevNames \cup {OLD_GATEWAY_DEFAULT_NAME \o " (Id: 1)"}

\* async_setup_entry registers the gateway it has just created (line 153).
SetGateway ==
    /\ Len(registered) < MaxGateways
    /\ \E dev_name \in DevNames :
           set_gateway_to_hass([id |-> Len(registered) + 1, dev_name |-> dev_name])

GetGateway == \E description \in Descriptions : get_gateway_from_hass(description)

UnloadEntry == \E description \in Descriptions : async_unload_entry(description)

NextGateway == SetGateway \/ GetGateway \/ UnloadEntry

SpecGateway == Init /\ [][NextGateway]_vars

\* Brightness arguments over the range 0..255 and its ends; dim values over
\* 0..100 and its ends.
Brightnesses == {0, 1, 2, 3, 50, 128, 254, 255}

DimValues == {0, 1, 50, 99, 100}

StatusTelegrams ==
    {[org |-> org, data |-> <<d0, val, 0, d3>>] :
        org \in {5, 7}, d0 \in {1, 2}, val \in DimValues, d3 \in {8, 9}}

TurnOn ==
    \E kwargs \in {<<>>} \cup {<<[k |-> ATTR_BRIGHTNESS, v |-> b]>> : b \in Brightnesses} :
        turn_on(kwargs)

TurnOff == turn_off(<<>>)

ValueChanged == \E msg \in StatusTelegrams : value_changed(msg)

NextLight == TurnOn \/ TurnOff \/ ValueChanged

SpecLight == Init /\ [][NextLight]_vars

\* The switchable light: the EEP its value_changed handles and the one
\* setup_platform tests for; rocker telegrams (org 5, one data octet) with
\* the two switch codes and two others, and a four-octet telegram.
SwitchableEeps == {"M5-38-08", "AM-38-08"}

SwitchTelegrams ==
    {[org |-> 5, data |-> <<d0>>] : d0 \in {0, 48, 80, 112}}
        \cup {[org |-> 7, data |-> <<d0, 0, 0, 9>>] : d0 \in {80, 112}}

SwitchableTurnOn ==
    \E kwargs \in {<<>>} \cup {<<[k |-> ATTR_BRIGHTNESS, v |-> b]>> : b \in Brightnesses} :
        switchable_turn_on(kwargs)

SwitchableTurnOff == switchable_turn_off(<<>>)

SwitchableValueChanged == \E msg \in SwitchTelegrams : switchable_value_changed(msg)

SwitchableNew == \E dev_eep \in SwitchableEeps : switchable_new(dev_eep)

NextSwitchable ==
    SwitchableTurnOn \/ SwitchableTurnOff \/ SwitchableValueChanged \/ SwitchableNew

SpecSwitchable == Init /\ [][NextSwitchable]_vars

\* The platform: the configs the schema lets through, out of those with the
\* two supported EEPs and the one setup_platform tests for besides.
MaxSetups == 3

Configs ==
    {config \in [id : {"FF-AA-80-01", "FF-AA-80-02"},
                 eep : {"A5-38-08", "M5-38-08", "AM-38-08"},
                 sender_id : {"FF-80-00-01"},
                 name : {"Light", "Desk"}] : PLATFORM_SCHEMA(config)}

SetupPlatform ==
    /\ nsetups < MaxSetups
    /\ \E config \in Configs : setup_platform(config)

NextPlatform == SetupPlatform

SpecPlatform == Init /\ [][NextPlatform]_vars

(***************************************************************************)
(* Vocabulary of the properties.                                           *)
(***************************************************************************)
\* The list stored under a role, empty when the role has no list yet.
RoleList(e, role) == IF DictHas(e, role) THEN DictGet(e, role) ELSE <<>>

Roles == {"binary_sensor", "sensor", "light", "switch", "cover"}

\* The positions <<role index, list index>> of every record of the role map.
Positions(e) == UNION {{<<r, n>> : n \in 1..Len(e[r].v)} : r \in 1..Len(e)}

RecordAt(e, p) == e[p[1]].v[p[2]]

\* Only add_sensor writes a comment: a sensor record is a record with one.
SensorPositions(e) == {p \in Positions(e) : DictHas(RecordAt(e, p), "comment")}

\* Whether the profile table has an entry for the hardware type name.
InTable(name) == \E n \in 1..Len(EEP_MAPPING) : EEP_MAPPING[n].hw_type = name

\* The address-span of a hardware type name: that of its first table entry.
SpanOf(name) ==
    EEP_MAPPING[CHOOSE n \in 1..Len(EEP_MAPPING) :
                    /\ EEP_MAPPING[n].hw_type = name
                    /\ \A m \in 1..(n - 1) : EEP_MAPPING[m].hw_type # name].address_count

RoleOf(name) ==
    EEP_MAPPING[CHOOSE n \in 1..Len(EEP_MAPPING) :
                    /\ EEP_MAPPING[n].hw_type = name
                    /\ \A m \in 1..(n - 1) : EEP_MAPPING[m].hw_type # name].type

\* Two uppercase hex digits of an octet, and the four-octet hyphenated
\* rendering of a value below 2^32 (written without get_formatted_address).
Hex2(octet) == HexUpper[(octet \div 16) + 1] \o HexUpper[(octet % 16) + 1]

FourOctets(w) ==
    Hex2(w.hi \div 256) \o "-" \o Hex2(w.hi % 256) \o "-" \o
    Hex2(w.lo \div 256) \o "-" \o Hex2(w.lo % 256)

\* The records an add_device step appended to its role list.
Appended(old, new) == SubSeq(new, Len(old) + 1, Len(new))

(***************************************************************************)
(* C1.  After any sequence of add_sensor calls, the number of sensor       *)
(* records equals the number of distinct addresses of the live sensor      *)
(* telegrams (recognized type, outgoing marker present) add_sensor was     *)
(* given, and no two sensor records share an id.                           *)
(***************************************************************************)
C1_OneRecordPerSeenAddress ==
    /\ Cardinality(SensorPositions(eltako)) = Cardinality(seen)
    /\ \A p, q \in SensorPositions(eltako) :
           p # q => DictGet(RecordAt(eltako, p), "id") # DictGet(RecordAt(eltako, q), "id")

(***************************************************************************)
(* C2.  An add_device call for a hardware type with a profile of           *)
(* address-span N appends exactly N records to the profile's role list,    *)
(* after the records already there; the record at offset i has the id      *)
(* formatted from base+i and the name ending in base+i, for i = 0..N-1 in  *)
(* that order; every other role list is left as it was.                    *)
(***************************************************************************)
C2_AddDeviceAppendsSpan ==
    [][(call'.op = "add_device" /\ InTable(call'.device.name)) =>
        LET device == call'.device
            N == SpanOf(device.name)
            old == RoleList(eltako, RoleOf(device.name))
            new == RoleList(eltako', RoleOf(device.name))
        IN  /\ Len(new) = Len(old) + N
            /\ SubSeq(new, 1, Len(old)) = old
            /\ \A i \in 0..(N - 1) :
                 /\ DictGet(new[Len(old) + 1 + i], "id")
                        = get_formatted_address(ToWide(device.address + i))
                 /\ DictGet(new[Len(old) + 1 + i], "name")
                        = device.name \o " - " \o ToString(device.address + i)
            /\ \A role \in Roles \ {RoleOf(device.name)} :
                 RoleList(eltako', role) = RoleList(eltako, role)
      ]_vars

\* A four-address relay appended after a two-address relay, across an octet carry.
C2_Witness ==
    /\ call.op = "add_device"
    /\ call.device = [name |-> "FSR14_4x", address |-> 255]
    /\ Len(RoleList(eltako, "light")) = 6
    /\ DictGet(RoleList(eltako, "light")[3], "id") = "00-00-00-FF"
    /\ DictGet(RoleList(eltako, "light")[6], "id") = "00-00-01-02"

(***************************************************************************)
(* C3.  No call of add_device or add_sensor raises, whatever the hardware  *)
(* type name, the telegram type or the organization code.                  *)
(***************************************************************************)
C3_NeverRaises == call.raised = ""

(***************************************************************************)
(* C4.  add_device with a hardware type name that has no entry in the      *)
(* profile table does not raise and leaves the role map, the dedup list    *)
(* and the default sender address unchanged.                               *)
(***************************************************************************)
C4_UnknownHardwareIsNoOp ==
    [][(call'.op = "add_device" /\ ~InTable(call'.device.name)) =>
        /\ call'.raised = ""
        /\ UNCHANGED <<eltako, sener_id_list, sender_address>>
      ]_vars

\* An unknown hardware type announced to an accumulator that already holds records.
C4_Witness ==
    /\ call.op = "add_device"
    /\ call.device.name = "FAM14"
    /\ eltako # <<>>
    /\ sener_id_list # <<>>

(***************************************************************************)
(* C5.  An add_sensor call with a telegram that has no outgoing marker     *)
(* appends no record and adds no address to the dedup list, whatever the   *)
(* telegram's type, address and organization code and whatever the         *)
(* accumulator holds.                                                      *)
(***************************************************************************)
C5_NoMarkerNoRecord ==
    [][(call'.op = "add_sensor" /\ ~call'.msg.has_outgoing) =>
        UNCHANGED <<eltako, sener_id_list>>
      ]_vars

\* A marker-less telegram of a sensor type and a mapped organization code, with an
\* address not yet recorded, given to an accumulator that holds records.
C5_Witness ==
    /\ call.op = "add_sensor"
    /\ ~call.msg.has_outgoing
    /\ call.msg.type = "Regular4BSMessage"
    /\ call.msg.org = 7
    /\ ~InList(call.msg.address, sener_id_list)
    /\ eltako # <<>>

\* The id under which add_sensor files a four-octet address.
AddressId(a) == Hex2(a[1]) \o "-" \o Hex2(a[2]) \o "-" \o Hex2(a[3]) \o "-" \o Hex2(a[4])

SensorRecordsFor(e, a) ==
    {p \in SensorPositions(e) : DictGet(RecordAt(e, p), "id") = AddressId(a)}

(***************************************************************************)
(* C6.  An address in the dedup list stays in it, at its place, across     *)
(* every step, and no step changes the number of sensor records carrying   *)
(* that address: add_sensor appends no second record for it, whatever      *)
(* add_device calls come in between.                                       *)
(***************************************************************************)
C6_RecordedAddressStays ==
    [][\A n \in 1..Len(sener_id_list) :
        /\ Len(sener_id_list') >= n
        /\ sener_id_list'[n] = sener_id_list[n]
        /\ Cardinality(SensorRecordsFor(eltako', sener_id_list[n]))
               = Cardinality(SensorRecordsFor(eltako, sener_id_list[n]))
      ]_vars

\* A sensor was recorded, then a relay was announced, then the same address came
\* again in a live telegram of a mapped organization code: still one record.
C6_Witness ==
    /\ ncalls = 3
    /\ call.op = "add_sensor"
    /\ live_sensor(call.msg)
    /\ call.msg.org = 5
    /\ sener_id_list = <<call.msg.address>>
    /\ DictKeys(eltako) = <<"binary_sensor", "light">>
    /\ Cardinality(SensorRecordsFor(eltako, call.msg.address)) = 1

(***************************************************************************)
(* C7.  add_device for an FSR14_x2 at base B with default sender S appends *)
(* exactly two records to the light list and none to the switch list;      *)
(* record i has id format(B+i), eep M5-38-08 and sender {id format(S+B+i), *)
(* eep A5-38-08}; for B = 0x100 and S = 0x200 the ids are 00-00-01-00 and  *)
(* 00-00-01-01 and the sender ids 00-00-03-00 and 00-00-03-01.  For every  *)
(* profile, the appended records carry a sender exactly when the profile's *)
(* role is light, switch or cover.                                         *)
(***************************************************************************)
C7_RelayExample ==
    [][(call'.op = "add_device" /\ InTable(call'.device.name)) =>
        LET device == call'.device
            B == device.address
            role == RoleOf(device.name)
            added == Appended(RoleList(eltako, role), RoleList(eltako', role))
            light == Appended(RoleList(eltako, "light"), RoleList(eltako', "light"))
        IN  /\ \A n \in 1..Len(added) :
                 DictHas(added[n], "sender") <=> role \in {"light", "switch", "cover"}
            /\ device.name = "FSR14_x2" =>
                 /\ Len(light) = 2
                 /\ RoleList(eltako', "switch") = <<>>
                 /\ \A i \in {0, 1} :
                      /\ DictGet(light[i + 1], "id") = get_formatted_address(ToWide(B + i))
                      /\ DictGet(light[i + 1], "eep") = "M5-38-08"
                      /\ DictGet(light[i + 1], "sender")
                           = << [k |-> "id", v |-> get_formatted_address(
                                    WideAdd(sender_address, ToWide(B + i)))],
                                [k |-> "eep", v |-> "A5-38-08"] >>
                 /\ (B = 256 /\ sender_address = ToWide(512)) =>
                      /\ DictGet(light[1], "id") = "00-00-01-00"
                      /\ DictGet(light[2], "id") = "00-00-01-01"
                      /\ DictGet(DictGet(light[1], "sender"), "id") = "00-00-03-00"
                      /\ DictGet(DictGet(light[2], "sender"), "id") = "00-00-03-01"
      ]_vars

\* The example of the specification: FSR14_x2 at 0x100, default sender 0x200.
C7_Witness ==
    /\ call.op = "add_device"
    /\ call.device = [name |-> "FSR14_x2", address |-> 256]
    /\ sender_address = ToWide(512)
    /\ Len(RoleList(eltako, "light")) = 2
    /\ DictGet(DictGet(RoleList(eltako, "light")[2], "sender"), "id") = "00-00-03-01"

(***************************************************************************)
(* C8.  Every address add_device formats (device address + offset for the  *)
(* id, default sender address + device address + offset for the sender id) *)
(* is rendered as four two-digit uppercase hex octets joined by hyphens    *)
(* whose value is the address, also when the sum exceeds 0xFFFFFFFF.       *)
(***************************************************************************)
C8_FormattedValueIsAddress ==
    (call.op = "add_device" /\ InTable(call.device.name)) =>
        LET device == call.device
            N == SpanOf(device.name)
            list == RoleList(eltako, RoleOf(device.name))
        IN  \A i \in 0..(N - 1) :
                LET rec == list[Len(list) - N + 1 + i]
                    id == ToWide(device.address + i)
                    sender == WideAdd(sender_address, id)
                IN  /\ id.hi < Limb
                    /\ DictGet(rec, "id") = FourOctets(id)
                    /\ DictHas(rec, "sender") =>
                         /\ sender.hi < Limb
                         /\ DictGet(DictGet(rec, "sender"), "id") = FourOctets(sender)

(***************************************************************************)
(* C9.  In every reachable state every record of the cover list carries    *)
(* device_class "shutter", time_closes 24 and time_opens 25, and no record *)
(* of another role list carries time_closes or time_opens.                 *)
(***************************************************************************)
C9_CoverDefaults ==
    \A p \in Positions(eltako) :
        LET rec == RecordAt(eltako, p)
        IN  IF eltako[p[1]].k = "cover"
            THEN /\ DictHas(rec, "device_class") /\ DictGet(rec, "device_class") = "shutter"
                 /\ DictHas(rec, "time_closes") /\ DictGet(rec, "time_closes") = 24
                 /\ DictHas(rec, "time_opens") /\ DictGet(rec, "time_opens") = 25
            ELSE ~DictHas(rec, "time_closes") /\ ~DictHas(rec, "time_opens")

\* A cover beside a relay and a sensor record.
C9_Witness ==
    /\ Len(RoleList(eltako, "cover")) = 1
    /\ Len(RoleList(eltako, "light")) = 2
    /\ SensorPositions(eltako) # {}

\* Whether a four-octet address, read as a big-endian number, is in the range.
InSwitchRange(a) ==
    /\ a[1] = 0 /\ a[2] = 0
    /\ a[3] * 256 + a[4] >= 16 * 256 + 1
    /\ a[3] * 256 + a[4] <= 20 * 256 + 137

(***************************************************************************)
(* C10.  The classifier labels a Regular1BSMessage "FTS14EM switch" when   *)
(* the address of its reinterpretation lies in 0x00001001..0x00001489,     *)
(* both bounds included, and "???" when the reinterpretation succeeds with *)
(* an address outside that range or fails; it raises in no case.           *)
(***************************************************************************)
C10_OneByteRange ==
    (call.op = "guess_sensor_type_by_address" /\ call.msg.type = "Regular1BSMessage") =>
        /\ call.raised = ""
        /\ call.result = IF call.msg.reparse.ok /\ InSwitchRange(call.msg.reparse.address)
                         THEN "FTS14EM switch"
                         ELSE "???"

\* Both bounds of the range, an address next to each, and a failed reinterpretation
\* are among the telegrams classified; the state is the upper bound's.
C10_Witness ==
    /\ call.op = "guess_sensor_type_by_address"
    /\ call.msg.type = "Regular1BSMessage"
    /\ call.msg.reparse = [ok |-> TRUE, address |-> <<0, 0, 20, 137>>]
    /\ call.result = "FTS14EM switch"

\* The role lines and the record lines of a written file, in file order.
RoleLines == {"  " \o role \o ":" : role \in Roles}

IsRoleLine(line) == line \in RoleLines

IsIdLine(line) == Len(line) >= 8 /\ SubSeq(line, 1, 8) = "  - id: "

Outline(f) == SelectSeq(f, LAMBDA line : IsRoleLine(line) \/ IsIdLine(line))

\* The same lines as the arrivals dictate them: each role where it first
\* received a record, under it the ids of its records as they were appended.
ArrivalOutline(e) ==
    Flatten([r \in 1..Len(e) |->
        << "  " \o e[r].k \o ":" >>
        \o [n \in 1..Len(e[r].v) |-> "  - id: " \o DictGet(e[r].v[n], "id")]])

IsPrefix(a, b) == Len(a) <= Len(b) /\ SubSeq(b, 1, Len(a)) = a

(***************************************************************************)
(* C11.  Every step keeps the roles in the order in which each first       *)
(* received a record (a new role comes last) and keeps each role's records *)
(* in the order they were appended (a new record comes last); and the file *)
(* a save writes lists the roles and, under each role, its records in      *)
(* exactly that arrival order, whatever the interleaving of add_device and *)
(* add_sensor calls was.                                                   *)
(***************************************************************************)
C11_ArrivalOrder ==
    [][/\ IsPrefix(DictKeys(eltako), DictKeys(eltako'))
       /\ \A r \in 1..Len(eltako) : IsPrefix(eltako[r].v, eltako'[r].v)
       /\ call'.op = "save_as_yaml_to_flie" => Outline(file') = ArrivalOutline(eltako')
      ]_vars

\* A file written after a 4BS sensor, then a rocker at a high address, then a
\* contact module at a low address: neither the roles nor the ids are sorted.
C11_Witness ==
    /\ call.op = "save_as_yaml_to_flie"
    /\ Outline(file) = << "  sensor:", "  - id: 00-00-10-01",
                          "  binary_sensor:", "  - id: FE-DB-00-01", "  - id: 00-00-01-00" >>

\* The telegram classes of the switch/rocker and of the 4-byte encoding family
\* among the classes add_sensor accepts.
RockerFamily == {"RPSMessage", "EltakoWrappedRPS"}

FourByteFamily == {"Regular4BSMessage", "EltakoWrapped4BS"}

\* Whether a four-octet address, read as a big-endian number, exceeds 0xFEDB0000.
AboveRockerThreshold(a) ==
    \/ a[1] * 256 + a[2] > 254 * 256 + 219
    \/ a[1] * 256 + a[2] = 254 * 256 + 219 /\ a[3] * 256 + a[4] > 0

(***************************************************************************)
(* C13.  The classifier labels a telegram of the switch/rocker family      *)
(* "Wall Switch /Rocker Switch" when its address is strictly above         *)
(* 0xFEDB0000 and "???" when it is equal or below, labels a telegram of    *)
(* the 4-byte family "Multi-Sensor ? ", and labels a telegram of neither   *)
(* family (and not of the 1-byte class) "???"; the Eltako-wrapped RPS and  *)
(* 4BS classes count as members of their families.                         *)
(***************************************************************************)
C13_FamilyPrecedence ==
    (call.op = "guess_sensor_type_by_address" /\ call.msg.type # "Regular1BSMessage") =>
        call.result =
            IF call.msg.type \in RockerFamily /\ AboveRockerThreshold(call.msg.address)
            THEN "Wall Switch /Rocker Switch"
            ELSE IF call.msg.type \in FourByteFamily THEN "Multi-Sensor ? "
            ELSE "???"

(***************************************************************************)
(* C14.  A live telegram with an address not yet recorded and organization *)
(* code 5, 6 or 7 makes add_sensor append exactly one record, and only an  *)
(* add_sensor call with such a code changes the role map.  The role and    *)
(* the eep of the record follow from the code alone, whatever the class of *)
(* the telegram: code 5 appends to binary_sensor with eep F6-02-01 and     *)
(* device_class "window / door / smoke / motion / ?"; code 6 appends to    *)
(* sensor with eep D5-??-??, code 7 to sensor with eep A5-??-??, both      *)
(* without device_class.  The record carries a comment and no sender, and  *)
(* no other role list changes.                                             *)
(***************************************************************************)
C14_RoleAndEepByOrg ==
    [][call'.op = "add_sensor" =>
        LET msg == call'.msg
            role == IF msg.org = 5 THEN "binary_sensor" ELSE "sensor"
            old == RoleList(eltako, role)
            new == RoleList(eltako', role)
        IN  /\ (live_sensor(msg) /\ ~InList(msg.address, sener_id_list)
                    /\ msg.org \in {5, 6, 7}) => eltako' # eltako
            /\ eltako' # eltako =>
                 /\ msg.org \in {5, 6, 7}
                 /\ Len(new) = Len(old) + 1
                 /\ SubSeq(new, 1, Len(old)) = old
                 /\ \A other \in Roles \ {role} :
                        RoleList(eltako', other) = RoleList(eltako, other)
                 /\ LET rec == new[Len(new)]
                    IN  /\ DictGet(rec, "eep") = CASE msg.org = 5 -> "F6-02-01"
                                                   [] msg.org = 6 -> "D5-??-??"
                                                   [] msg.org = 7 -> "A5-??-??"
                        /\ DictHas(rec, "device_class") <=> msg.org = 5
                        /\ msg.org = 5 => DictGet(rec, "device_class")
                                            = "window / door / smoke / motion / ?"
                        /\ DictHas(rec, "comment")
                        /\ ~DictHas(rec, "sender")
      ]_vars

\* A telegram of the wrapped RPS class carrying the 1-byte organization code is
\* filed under sensor with the 1-byte wildcard eep.
C14_Witness ==
    /\ call.op = "add_sensor"
    /\ call.msg.type = "EltakoWrappedRPS"
    /\ call.msg.org = 6
    /\ DictKeys(eltako) = <<"sensor">>
    /\ Len(RoleList(eltako, "sensor")) = 1
    /\ DictGet(RoleList(eltako, "sensor")[1], "eep") = "D5-??-??"
    /\ ~DictHas(RoleList(eltako, "sensor")[1], "device_class")

(***************************************************************************)
(* C15.  An add_sensor call with a telegram whose class is not one of the  *)
(* recognized sensor classes leaves the role map (every role list) and the *)
(* dedup list unchanged, with or without the outgoing marker and also for  *)
(* a discovery request with the broadcast address 127.                     *)
(***************************************************************************)
C15_OtherClassIsNoOp ==
    [][(call'.op = "add_sensor" /\ ~InList(call'.msg.type, SENSOR_MESSAGE_TYPES)) =>
        UNCHANGED <<eltako, sener_id_list>>
      ]_vars

\* The discovery request with address 127 reached an accumulator that holds
\* records: the notice is given and nothing is recorded.
C15_Witness ==
    /\ call.op = "add_sensor"
    /\ call.msg.type = "EltakoDiscoveryRequest"
    /\ call.msg.address = 127
    /\ call.notice
    /\ eltako # <<>>

(***************************************************************************)
(* C16.  add_device leaves the dedup list as it is and appends the full    *)
(* span of a known hardware type on every call, whatever the role map and  *)
(* the dedup list already hold: a unit announced again, or one whose       *)
(* address add_sensor has recorded, gets its N records again.  And a live  *)
(* telegram of organization code 5, 6 or 7 whose address is not in the     *)
(* dedup list gets a sensor record even when add_device has already filed  *)
(* records under the same id.                                              *)
(***************************************************************************)
C16_AddDeviceNeverDedups ==
    [][/\ call'.op = "add_device" =>
            /\ sener_id_list' = sener_id_list
            /\ InTable(call'.device.name) =>
                 Len(RoleList(eltako', RoleOf(call'.device.name)))
                    = Len(RoleList(eltako, RoleOf(call'.device.name)))
                        + SpanOf(call'.device.name)
       /\ (call'.op = "add_sensor" /\ live_sensor(call'.msg) /\ call'.msg.org \in {5, 6, 7}
              /\ ~InList(call'.msg.address, sener_id_list)) =>
            Cardinality(SensorRecordsFor(eltako', call'.msg.address))
                = Cardinality(SensorRecordsFor(eltako, call'.msg.address)) + 1
      ]_vars

\* A contact module at 0x100 was announced, a rocker telegram from address
\* 00 00 01 00 was recorded, and the module was announced again: three records
\* with the same id, the sensor record between the two device records.
C16_Witness ==
    /\ call.op = "add_device"
    /\ call.device = [name |-> "FTS14EM", address |-> 256]
    /\ sener_id_list = <<Addr1>>
    /\ Len(RoleList(eltako, "binary_sensor")) = 3
    /\ \A n \in 1..3 : DictGet(RoleList(eltako, "binary_sensor")[n], "id") = "00-00-01-00"
    /\ \A n \in 1..3 : DictHas(RoleList(eltako, "binary_sensor")[n], "comment") <=> n = 2

\* The records of the role map in file order.
Records(e) == Flatten([r \in 1..Len(e) |-> e[r].v])

\* The lines of a file between its first line and its four last, cut into
\* segments: a record line or a role line opens a segment, any other line
\* joins the segment before it.
RECURSIVE Segments(_, _, _)
Segments(f, i, acc) ==
    IF i > Len(f) - 4 THEN acc
    ELSE IF IsIdLine(f[i]) \/ IsRoleLine(f[i]) \/ acc = <<>>
    THEN Segments(f, i + 1, Append(acc, <<f[i]>>))
    ELSE Segments(f, i + 1, [acc EXCEPT ![Len(acc)] = Append(@, f[i])])

\* The keys of a record the renderer writes as fields, in the record's order.
FieldKeys(rec) ==
    SelectSeq(DictKeys(rec), LAMBDA key : key \notin {"id", "sender", "comment"})

\* The line the claim expects for a field.
FieldLine(rec, key) ==
    LET value == DictGet(rec, key)
    IN  IF is_str(value)
        THEN "    " \o key \o ": " \o value
             \o (IF In("?", value) THEN " # <= NEED TO BE COMPLETED!!!" ELSE "")
        ELSE "    " \o key \o ": " \o ToString(value)

SenderBlock(rec) ==
    << "    sender:",
       "      id: " \o DictGet(DictGet(rec, "sender"), "id"),
       "      eep: " \o DictGet(DictGet(rec, "sender"), "eep") >>

IsSenderLine(line) ==
    \/ line = "    sender:"
    \/ Len(line) >= 6 /\ SubSeq(line, 1, 6) = "      "

IsCommentLine(line) == Len(line) >= 5 /\ SubSeq(line, 1, 5) = "    #"

(***************************************************************************)
(* C17.  A written file starts with the line "eltako:" and ends with the   *)
(* four logger lines, also when the role map is empty (then it is these    *)
(* five lines).  It has one record line "  - id: <id>" per record, in file *)
(* order, and the lines that follow a record line are: one line per field  *)
(* other than id, sender and comment, in the record's order, carrying the  *)
(* suffix " # <= NEED TO BE COMPLETED!!!" exactly when the value is a      *)
(* string containing '?'; the three lines of the sender block when the     *)
(* record has a sender, and not otherwise; and, as the last line, the      *)
(* comment line "    #<comment>" when the record has a comment, and not    *)
(* otherwise.  A save changes neither the role map nor the dedup list.     *)
(***************************************************************************)
C17_RecordLayout ==
    [][call'.op = "save_as_yaml_to_flie" =>
        LET f == file'
            recs == Records(eltako)
            segs == Segments(f, 2, <<>>)
            blocks == SelectSeq(segs, LAMBDA seg : IsIdLine(seg[1]))
        IN  /\ UNCHANGED <<eltako, sener_id_list, sender_address>>
            /\ Len(f) >= 5
            /\ f[1] = "eltako:"
            /\ SubSeq(f, Len(f) - 3, Len(f))
                 = << "logger:", "  default: info", "  logs:", "    eltako: debug" >>
            /\ eltako = <<>> => Len(f) = 5
            /\ \A n \in 1..Len(segs) :
                 IsIdLine(segs[n][1]) \/ (IsRoleLine(segs[n][1]) /\ Len(segs[n]) = 1)
            /\ Len(blocks) = Len(recs)
            /\ \A n \in 1..Len(recs) :
                 LET rec == recs[n]
                     block == Tail(blocks[n])
                     fields == SelectSeq(block,
                                   LAMBDA line : ~IsSenderLine(line) /\ ~IsCommentLine(line))
                     senders == SelectSeq(block, IsSenderLine)
                     comments == SelectSeq(block, IsCommentLine)
                 IN  /\ blocks[n][1] = "  - id: " \o DictGet(rec, "id")
                     /\ fields = [m \in 1..Len(FieldKeys(rec)) |->
                                     FieldLine(rec, FieldKeys(rec)[m])]
                     /\ senders = IF DictHas(rec, "sender") THEN SenderBlock(rec) ELSE <<>>
                     /\ DictHas(rec, "sender") =>
                          \E m \in 1..(Len(block) - 2) : SubSeq(block, m, m + 2) = SenderBlock(rec)
                     /\ comments = IF DictHas(rec, "comment")
                                   THEN << "    #" \o DictGet(rec, "comment") >>
                                   ELSE <<>>
                     /\ DictHas(rec, "comment") => block[Len(block)] = comments[1]
      ]_vars

\* A file with a cover (int fields, a sender block), a sensor with a wildcard
\* eep and a comment, and a rocker with the placeholder device class.
C17_Witness ==
    /\ call.op = "save_as_yaml_to_flie"
    /\ file = << "eltako:",
                 "  cover:",
                 "  - id: 00-00-01-00",
                 "    eep: G5-3F-7F",
                 "    name: FSB14 - 256",
                 "    sender:",
                 "      id: 00-00-03-00",
                 "      eep: H5-3F-7F",
                 "    device_class: shutter",
                 "    time_closes: 24",
                 "    time_opens: 25",
                 "  sensor:",
                 "  - id: 00-00-10-01",
                 "    eep: A5-??-?? # <= NEED TO BE COMPLETED!!!",
                 "    name: 4 Byte Communication 00-00-10-01",
                 "    #Sensor Type: Multi-Sensor ? , Derived from Msg Type: Regular4BSMessage",
                 "  binary_sensor:",
                 "  - id: 00-00-01-00",
                 "    eep: F6-02-01",
                 "    name: Switch 00-00-01-00",
                 "    device_class: window / door / smoke / motion / ? # <= NEED TO BE COMPLETED!!!",
                 "    #Sensor Type: ???, Derived from Msg Type: RPSMessage",
                 "logger:",
                 "  default: info",
                 "  logs:",
                 "    eltako: debug" >>

\* The places in the registration history of the gateways with a dev_name,
\* and the one registered last under it.
RegisteredAs(dev_name) == {n \in 1..Len(registered) : registered[n].dev_name = dev_name}

MostRecent(dev_name) ==
    registered[CHOOSE n \in RegisteredAs(dev_name) : \A m \in RegisteredAs(dev_name) : m <= n]

\* The keys of a registry that map to the gateway with an id.
KeysOf(d, id) == {d[n].k : n \in {m \in 1..Len(d) : d[m].v.id = id}}

(***************************************************************************)
(* C18.  A get_gateway_from_hass call that returns a gateway never returns *)
(* an unloaded one; for a description equal to the dev_name of a gateway   *)
(* that was registered and whose latest registration is not unloaded, it   *)
(* returns that latest gateway; asked again with the same description      *)
(* right after, it returns the same gateway; and the migration inside the  *)
(* call leaves every entry stored under its gateway's own dev_name mapped  *)
(* to that gateway.                                                        *)
(***************************************************************************)
C18_GetReturnsCurrentGateway ==
    [][hass_call'.op = "get_gateway_from_hass" =>
        LET description == hass_call'.description
        IN  /\ \A n \in 1..Len(data_eltako) :
                 data_eltako[n].k = data_eltako[n].v.dev_name =>
                    /\ DictHas(data_eltako', data_eltako[n].k)
                    /\ DictGet(data_eltako', data_eltako[n].k) = data_eltako[n].v
            /\ hass_call'.raised = "" =>
                 /\ hass_call'.result \notin unloaded
                 /\ (RegisteredAs(description) # {}
                        /\ MostRecent(description).id \notin unloaded) =>
                      hass_call'.result = MostRecent(description).id
                 /\ (hass_call.op = "get_gateway_from_hass" /\ hass_call.raised = ""
                        /\ hass_call.description = description) =>
                      hass_call'.result = hass_call.result
      ]_vars

(***************************************************************************)
(* C19.  When async_unload_entry has completed for a gateway, no key of    *)
(* the registry maps to that gateway any more: neither its dev_name nor    *)
(* the old-style alias the migration creates.                              *)
(***************************************************************************)
C19_UnloadedGatewayUnreachable ==
    (hass_call.op = "async_unload_entry" /\ hass_call.raised = "") =>
        KeysOf(data_eltako, hass_call.result) = {}

\* Whether the claim counts a status telegram as rejected.
Rejected(msg) ==
    \/ msg.org # 7
    \/ msg.data[1] # 2
    \/ msg.data[4] # (IF msg.data[2] # 0 THEN 9 ELSE 8)

(***************************************************************************)
(* C20.  After every call of the dimmable light (turn_on with no           *)
(* brightness or one in 0..255, turn_off, value_changed with a dim value   *)
(* in 0..100) the stored brightness is in 0..255; the dim byte of the      *)
(* command turn_on sends is in 1..100 and the light is on afterwards; the  *)
(* light is off after turn_off; and a rejected status telegram leaves      *)
(* brightness and on-state as they were.                                   *)
(***************************************************************************)
C20_DimmableLightRanges ==
    [][/\ dimmable_light'.brightness \in 0..255
       /\ light_call'.op = "turn_on" =>
            /\ sent'[3] \in 1..100
            /\ dimmable_light'.on_state
       /\ light_call'.op = "turn_off" => ~dimmable_light'.on_state
       /\ (light_call'.op = "value_changed" /\ Rejected(light_call'.msg)) =>
            UNCHANGED dimmable_light
      ]_vars

(***************************************************************************)
(* C21.  Every turn_on of the switchable light, with or without a          *)
(* brightness and in whatever state (directly after construction           *)
(* included), returns without an exception, has sent an on command (dim    *)
(* byte in 1..100) and leaves the light on; turn_off leaves it off; and    *)
(* value_changed changes the on-state only for a telegram of org 5 whose   *)
(* data[0] is 0x70 (then to on) or 0x50 (then to off).                     *)
(***************************************************************************)
C21_SwitchableLightCalls ==
    [][/\ switchable_call'.op = "turn_on" =>
            /\ switchable_call'.raised = ""
            /\ Len(switchable_sent') = 10
            /\ SubSeq(switchable_sent', 1, 2) = <<165, 2>>
            /\ switchable_sent'[3] \in 1..100
            /\ switchable_light'.on_state
       /\ switchable_call'.op = "turn_off" => ~switchable_light'.on_state
       /\ (/\ switchable_call'.op = "value_changed"
           /\ switchable_light'.on_state # switchable_light.on_state) =>
            /\ switchable_call'.msg.org = 5
            /\ \/ switchable_call'.msg.data[1] = 112 /\ switchable_light'.on_state
               \/ switchable_call'.msg.data[1] = 80 /\ ~switchable_light'.on_state
      ]_vars

(***************************************************************************)
(* C22.  Every call of setup_platform with a config the schema accepts     *)
(* (EEP A5-38-08 or M5-38-08) adds exactly one entity, made from the       *)
(* config: an EltakoDimmableLight for A5-38-08, an EltakoSwitchableLight   *)
(* for M5-38-08.                                                           *)
(***************************************************************************)
C22_OneEntityPerSupportedEep ==
    [][platform_call'.op = "setup_platform" =>
         LET config == platform_call'.config
         IN  /\ Len(entities') = Len(entities) + 1
             /\ SubSeq(entities', 1, Len(entities)) = entities
             /\ entities'[Len(entities')].dev_eep = config.eep
             /\ entities'[Len(entities')].class =
                    (IF config.eep = "A5-38-08" THEN "EltakoDimmableLight"
                                               ELSE "EltakoSwitchableLight")
      ]_vars

====
